---------------------------- MODULE Spec2Model ----------------------------
(***************************************************************************)
(* Model of sdl-helpers: the process-wide transform stack MATRIX_STACK     *)
(* (src/src/matrix_stack.rs), the CanvasExt methods that mutate and read   *)
(* it (src/src/lib.rs), and the adapter calls they make.                   *)
(*                                                                         *)
(* Every `MATRIX_STACK.read()` / `MATRIX_STACK.write()` in the source is a *)
(* temporary guard that lives to the end of its statement.  Each such      *)
(* statement is modelled by two steps: one that takes the lock and one     *)
(* that runs the statement's body and drops the guard.  A failed           *)
(* `unwrap()` unwinds: the guard is dropped and the caller is dead.        *)
(*                                                                         *)
(* Numbers: f64 values are modelled by integers, an angle by its number    *)
(* of quarter turns (radians = k * pi/2), so that every matrix entry is an *)
(* exact integer.  The `as i16` cast keeps its saturation.                 *)
(***************************************************************************)
EXTENDS Integers, Sequences, FiniteSets, TLC

\* ------------------------------------------------------------------ bounds
\* number of concurrent callers
NThreads == 2
\* calls a single caller issues
MaxCalls == 6
\* calls issued in total when several callers run
MaxConcCalls == 3
\* the last time the clock reaches
MaxTime == 6
\* calls of Timer::tick
MaxTicks == 4
\* map's arguments lie in -MaxMapArg..MaxMapArg
MaxMapArg == 2

\* ------------------------------------------------------- program constants
I16Min == -32768
I16Max == 32767

Threads == 1..NThreads

\* ----------------------------------------------------------------- inputs
\* translate(dx, dy)
TranslateArgs == {<<10, 0>>, <<100, 50>>, <<32760, 0>>}
\* rotate(radians), in quarter turns
RotateArgs == {<<1>>}
\* ext_draw_line(start, end): <<start.x, start.y, end.x, end.y>>
LineArgs == {<<0, 0, 10, 0>>}
\* ext_fill_circle(center, radius): <<center.x, center.y, radius>>
CircleArgs == {<<1, 0, 5>>}
\* points the transforms are compared on
Points == {<<0, 0>>, <<1, 0>>, <<0, 1>>, <<3, -2>>}

MutationOps == {"reset_matrix", "push_matrix", "pop_matrix", "translate", "rotate"}

Calls ==
    [op : {"background", "reset_matrix", "push_matrix", "pop_matrix"}, args : {<<>>}]
    \cup [op : {"translate"}, args : TranslateArgs]
    \cup [op : {"rotate"}, args : RotateArgs]
    \cup [op : {"ext_draw_line"}, args : LineArgs]
    \cup [op : {"ext_fill_circle"}, args : CircleArgs]

NoCall == [op |-> "none", args |-> <<>>]

\* ------------------------------------------------------------ matrices
\* nalgebra::Matrix3::identity()
Identity == <<<<1, 0, 0>>, <<0, 1, 0>>, <<0, 0, 1>>>>

\* the translation written into the bottom row (the transposed matrix)
TranslationTransposed(dx, dy) == <<<<1, 0, 0>>, <<0, 1, 0>>, <<dx, dy, 1>>>>

\* Translation2::new(dx, dy).to_homogeneous()
Translation(dx, dy) == <<<<1, 0, dx>>, <<0, 1, dy>>, <<0, 0, 1>>>>

Cos4(k) == CASE k % 4 = 0 -> 1 [] k % 4 = 1 -> 0 [] k % 4 = 2 -> -1 [] OTHER -> 0
Sin4(k) == CASE k % 4 = 0 -> 0 [] k % 4 = 1 -> 1 [] k % 4 = 2 -> 0 [] OTHER -> -1

\* Rotation::from_axis_angle(&Vector3::z_axis(), k * pi/2)
Rotation(k) == <<<<Cos4(k), -Sin4(k), 0>>, <<Sin4(k), Cos4(k), 0>>, <<0, 0, 1>>>>

MatMul(a, b) ==
    [i \in 1..3 |-> [j \in 1..3 |->
        a[i][1] * b[1][j] + a[i][2] * b[2][j] + a[i][3] * b[3][j]]]

\* the wrong way round: rhs * lhs
MulAssignLeft(m, e) == MatMul(e, m)

\* `*top *= e`: top := top * e
MulAssign(m, e) == MatMul(m, e)

\* the point's translation dropped
TransformPointLinear(m, p) ==
    <<m[1][1] * p[1] + m[1][2] * p[2], m[2][1] * p[1] + m[2][2] * p[2]>>

\* Matrix3::transform_point: the homogeneous product, divided by the
\* normalizer when that is not zero
TransformPoint(m, p) ==
    LET x == m[1][1] * p[1] + m[1][2] * p[2] + m[1][3]
        y == m[2][1] * p[1] + m[2][2] * p[2] + m[2][3]
        n == m[3][1] * p[1] + m[3][2] * p[2] + m[3][3]
    IN  IF n # 0 THEN <<x \div n, y \div n>> ELSE <<x, y>>

\* a cast that wraps instead of saturating
AsI16Wrap(x) == ((x - I16Min) % 65536) + I16Min

\* `x as i16` on a float: saturates at the ends of the i16 range
AsI16(x) == IF x > I16Max THEN I16Max ELSE IF x < I16Min THEN I16Min ELSE x

\* --------------------------------------------------------------- Vec
Last(s) == s[Len(s)]

\* clear() forgotten
VecClearNot(s) == s

\* Vec::clear
VecClear(s) == <<>>

\* Vec::push
VecPush(s, m) == Append(s, m)

\* pops the base slot
VecPopFront(s) == IF s = <<>> THEN s ELSE SubSeq(s, 2, Len(s))

\* Vec::pop: removes the last element; on an empty Vec returns None
VecPop(s) == IF s = <<>> THEN s ELSE SubSeq(s, 1, Len(s) - 1)

\* reads the base slot
CloneFirst(s) == s[1]

\* `last().unwrap().clone()` of a non-empty Vec
CloneLast(s) == Last(s)

\* first_mut() in place of last_mut()
MulFirst(s, e) == [s EXCEPT ![1] = MulAssign(@, e)]

\* `*last_mut().unwrap() *= e` on a non-empty Vec
MulTop(s, e) == [s EXCEPT ![Len(s)] = MulAssign(@, e)]


\* ------------------------------------------------------------------ state
VARIABLES
    stack,    \* MATRIX_STACK: the Vec<Matrix3<f64>> behind the RwLock
    held,     \* held[t]: the guard caller t holds: "none", "read" or "write"
    active,   \* the callers that exist
    pc,       \* pc[t]: where caller t stands in its call
    cur,      \* cur[t]: the call t is in (or has last returned from)
    top,      \* push_matrix's local `top`
    start,    \* ext_draw_line's local `start`
    end,      \* ext_draw_line's local `end`
    center,   \* ext_fill_circle's local `center`
    canvas,   \* canvas[t]: the adapter calls made by t's current call
    ret,      \* ret[t]: how t's last call ended: "none", "unit", "ok", "err", "panic"
    ncalls,   \* ncalls[t]: calls t has issued
    pre,      \* history: the stack as t's call found it at its first locked statement
    saved,    \* history: the stack as each not yet popped push_matrix found it
    answer,   \* answer[t]: the adapter's answer to t's draw call: "none", "accepted", "rejected"
    last_tick,  \* Timer::last_tick
    interval,   \* Timer::interval
    clock,      \* the time chrono::Local::now() returns
    ticked,     \* what the last Timer::tick returned: "none", "true" or "false"
    nticks,     \* calls of Timer::tick so far
    since,      \* history: the time of the last tick that returned true, or of Timer::new
    everTrue,   \* history: some tick has returned true
    mapArgs,    \* map's arguments <<value, orig_min, orig_max, new_min, new_max>>
    mapOut      \* map's result in a one-element sequence, <<>> before the call

\* the Timer (src/src/timer.rs)
timerVars == <<last_tick, interval, clock, ticked, nticks, since, everTrue>>

\* the call of map (src/src/lib.rs)
mapVars == <<mapArgs, mapOut>>

\* what the CanvasExt methods never touch
auxVars == <<timerVars, mapVars>>

\* the transform stack, its callers and their canvases
canvasVars == <<stack, held, active, pc, cur, top, start, end, center, canvas, ret,
                ncalls, pre, saved, answer>>

vars == <<canvasVars, auxVars>>

NoPoint == <<0, 0>>

RECURSIVE SumCalls(_, _)
SumCalls(f, S) ==
    IF S = {} THEN 0
    ELSE LET t == CHOOSE x \in S : TRUE IN f[t] + SumCalls(f, S \ {t})

\* calls the callers may issue in all
CallBudget == IF Cardinality(active) = 1 THEN MaxCalls ELSE MaxConcCalls

\* lazy_static! MATRIX_STACK = RwLock::new(vec![Matrix3::identity()])
InitFor(callers) ==
    /\ stack = <<Identity>>
    /\ held = [t \in Threads |-> "none"]
    /\ active = callers
    /\ pc = [t \in Threads |-> "idle"]
    /\ cur = [t \in Threads |-> NoCall]
    /\ top = [t \in Threads |-> Identity]
    /\ start = [t \in Threads |-> NoPoint]
    /\ end = [t \in Threads |-> NoPoint]
    /\ center = [t \in Threads |-> NoPoint]
    /\ canvas = [t \in Threads |-> <<>>]
    /\ ret = [t \in Threads |-> "none"]
    /\ ncalls = [t \in Threads |-> 0]
    /\ pre = [t \in Threads |-> <<>>]
    /\ saved = <<>>
    /\ answer = [t \in Threads |-> "none"]

\* no Timer is in use: one made at time 0 that is never ticked
TimerUnused ==
    /\ last_tick = 0
    /\ interval = 0
    /\ clock = 0
    /\ ticked = "none"
    /\ nticks = 0
    /\ since = 0
    /\ everTrue = FALSE

\* map is not called
MapUnused == mapArgs = <<0, 0, 1, 0, 1>> /\ mapOut = <<>>

Init == InitFor(Threads) /\ TimerUnused /\ MapUnused

InitSeq == InitFor({1}) /\ TimerUnused /\ MapUnused

\* ------------------------------------------------------------ the RwLock
\* a write lock that does not wait for readers
CanWriteOverReaders(t) == \A u \in Threads : held[u] # "write"

\* RwLock::write: granted when no guard is held
CanWrite(t) == \A u \in Threads : held[u] = "none"

\* RwLock::read: granted when no write guard is held
CanRead(t) == \A u \in Threads : held[u] # "write"

\* the first statement of each method
Entry(op) ==
    CASE op = "background" -> "bg_clear"
      [] op = "reset_matrix" -> "reset_lock1"
      [] op = "translate" -> "translate_lock"
      [] op = "rotate" -> "rotate_lock"
      [] op = "push_matrix" -> "push_lock1"
      [] op = "pop_matrix" -> "pop_lock"
      [] op = "ext_draw_line" -> "line_lock1"
      [] op = "ext_fill_circle" -> "circle_lock"

\* a caller enters one of the CanvasExt methods
Call(t) ==
    /\ t \in active
    /\ pc[t] = "idle"
    /\ SumCalls(ncalls, Threads) < CallBudget
    /\ \E c \in Calls :
        /\ cur' = [cur EXCEPT ![t] = c]
        /\ pc' = [pc EXCEPT ![t] = Entry(c.op)]
    /\ ncalls' = [ncalls EXCEPT ![t] = @ + 1]
    /\ canvas' = [canvas EXCEPT ![t] = <<>>]
    /\ ret' = [ret EXCEPT ![t] = "none"]
    /\ pre' = [pre EXCEPT ![t] = <<>>]
    /\ answer' = [answer EXCEPT ![t] = "none"]
    /\ UNCHANGED <<stack, held, active, auxVars, top, start, end, center, saved>>

\* MATRIX_STACK.write(): take the write guard
LockWrite(t, to) ==
    /\ CanWrite(t)
    /\ held' = [held EXCEPT ![t] = "write"]
    /\ pc' = [pc EXCEPT ![t] = to]
    /\ UNCHANGED <<stack, active, auxVars, cur, top, start, end, center, canvas, answer, ret,
                   ncalls, pre, saved>>

\* MATRIX_STACK.read(): take a read guard
LockRead(t, to) ==
    /\ CanRead(t)
    /\ held' = [held EXCEPT ![t] = "read"]
    /\ pc' = [pc EXCEPT ![t] = to]
    /\ UNCHANGED <<stack, active, auxVars, cur, top, start, end, center, canvas, answer, ret,
                   ncalls, pre, saved>>

\* the end of a statement drops its guard
Unlock(t) == held' = [held EXCEPT ![t] = "none"]

\* the method returns to its caller
Return(t, r) ==
    /\ pc' = [pc EXCEPT ![t] = "idle"]
    /\ ret' = [ret EXCEPT ![t] = r]

\* the adapter's error dropped
MapErrSwallowed(a) == "ok"

\* .map_err(SdlError::Draw): Ok(()) stays Ok, Err(e) becomes Err(SdlError::Draw(e))
MapErr(a) == IF a = "rejected" THEN "err" ELSE "ok"

\* unwrap() on None: the caller unwinds, dropping its guard
Panic(t) ==
    /\ pc' = [pc EXCEPT ![t] = "panicked"]
    /\ ret' = [ret EXCEPT ![t] = "panic"]
    /\ Unlock(t)

\* ---------------------------------------------------------- background
Background(t) ==
    /\ pc[t] = "bg_clear"
    /\ canvas' = [canvas EXCEPT ![t] = Append(@, [kind |-> "clear", at |-> <<>>])]
    /\ Return(t, "unit")
    /\ UNCHANGED answer
    /\ UNCHANGED <<stack, held, active, auxVars, cur, top, start, end, center, ncalls,
                   pre, saved>>

\* -------------------------------------------------------- reset_matrix
ResetLock1(t) ==
    /\ pc[t] = "reset_lock1"
    /\ LockWrite(t, "reset_clear")

\* MATRIX_STACK.write().clear();
ResetClear(t) ==
    /\ pc[t] = "reset_clear"
    /\ pre' = [pre EXCEPT ![t] = stack]
    /\ stack' = VecClear(stack)
    /\ saved' = <<>>
    /\ Unlock(t)
    /\ pc' = [pc EXCEPT ![t] = "reset_lock2"]
    /\ UNCHANGED <<active, auxVars, cur, top, start, end, center, canvas, answer, ret, ncalls>>

ResetLock2(t) ==
    /\ pc[t] = "reset_lock2"
    /\ LockWrite(t, "reset_push")

\* MATRIX_STACK.write().push(Matrix3::identity());
ResetPush(t) ==
    /\ pc[t] = "reset_push"
    /\ stack' = VecPush(stack, Identity)
    /\ Unlock(t)
    /\ Return(t, "unit")
    /\ UNCHANGED <<active, auxVars, cur, top, start, end, center, canvas, answer, ncalls, pre,
                   saved>>

\* ----------------------------------------------------------- translate
TranslateLock(t) ==
    /\ pc[t] = "translate_lock"
    /\ LockWrite(t, "translate_mul")

\* *MATRIX_STACK.write().last_mut().unwrap() *= Translation2::new(dx, dy).to_homogeneous();
TranslateMul(t) ==
    /\ pc[t] = "translate_mul"
    /\ pre' = [pre EXCEPT ![t] = stack]
    /\ IF stack = <<>>
       THEN Panic(t) /\ UNCHANGED stack
       ELSE /\ stack' = MulTop(stack, Translation(cur[t].args[1], cur[t].args[2]))
            /\ Unlock(t)
            /\ Return(t, "unit")
    /\ UNCHANGED <<active, auxVars, cur, top, start, end, center, canvas, answer, ncalls, saved>>

\* -------------------------------------------------------------- rotate
RotateLock(t) ==
    /\ pc[t] = "rotate_lock"
    /\ LockWrite(t, "rotate_mul")

\* *MATRIX_STACK.write().last_mut().unwrap() *= Rotation::from_axis_angle(z, radians)
RotateMul(t) ==
    /\ pc[t] = "rotate_mul"
    /\ pre' = [pre EXCEPT ![t] = stack]
    /\ IF stack = <<>>
       THEN Panic(t) /\ UNCHANGED stack
       ELSE /\ stack' = MulTop(stack, Rotation(cur[t].args[1]))
            /\ Unlock(t)
            /\ Return(t, "unit")
    /\ UNCHANGED <<active, auxVars, cur, top, start, end, center, canvas, answer, ncalls, saved>>

\* --------------------------------------------------------- push_matrix
PushLock1(t) ==
    /\ pc[t] = "push_lock1"
    /\ LockRead(t, "push_read")

\* let top = MATRIX_STACK.read().last().unwrap().clone();
PushRead(t) ==
    /\ pc[t] = "push_read"
    /\ pre' = [pre EXCEPT ![t] = stack]
    /\ IF stack = <<>>
       THEN Panic(t) /\ UNCHANGED top
       ELSE /\ top' = [top EXCEPT ![t] = CloneLast(stack)]
            /\ Unlock(t)
            /\ pc' = [pc EXCEPT ![t] = "push_lock2"]
            /\ UNCHANGED ret
    /\ UNCHANGED <<stack, active, auxVars, cur, start, end, center, canvas, answer, ncalls, saved>>

PushLock2(t) ==
    /\ pc[t] = "push_lock2"
    /\ LockWrite(t, "push_push")

\* MATRIX_STACK.write().push(top);
PushPush(t) ==
    /\ pc[t] = "push_push"
    /\ stack' = VecPush(stack, top[t])
    /\ saved' = Append(saved, stack)
    /\ top' = [top EXCEPT ![t] = Identity]
    /\ Unlock(t)
    /\ Return(t, "unit")
    /\ UNCHANGED <<active, auxVars, cur, start, end, center, canvas, answer, ncalls, pre>>

\* ---------------------------------------------------------- pop_matrix
PopLock(t) ==
    /\ pc[t] = "pop_lock"
    /\ LockWrite(t, "pop_pop")

\* MATRIX_STACK.write().pop();
PopPop(t) ==
    /\ pc[t] = "pop_pop"
    /\ pre' = [pre EXCEPT ![t] = stack]
    /\ stack' = VecPop(stack)
    /\ saved' = IF saved = <<>> THEN saved ELSE SubSeq(saved, 1, Len(saved) - 1)
    /\ Unlock(t)
    /\ Return(t, "unit")
    /\ UNCHANGED <<active, auxVars, cur, top, start, end, center, canvas, answer, ncalls>>

\* ------------------------------------------------------- ext_draw_line
LineLock1(t) ==
    /\ pc[t] = "line_lock1"
    /\ LockRead(t, "line_read1")

\* let start = MATRIX_STACK.read().last().unwrap().transform_point(start);
LineRead1(t) ==
    /\ pc[t] = "line_read1"
    /\ pre' = [pre EXCEPT ![t] = stack]
    /\ IF stack = <<>>
       THEN Panic(t) /\ UNCHANGED start
       ELSE /\ start' = [start EXCEPT ![t] =
                    TransformPoint(Last(stack), <<cur[t].args[1], cur[t].args[2]>>)]
            /\ Unlock(t)
            /\ pc' = [pc EXCEPT ![t] = "line_lock2"]
            /\ UNCHANGED ret
    /\ UNCHANGED <<stack, active, auxVars, cur, top, end, center, canvas, answer, ncalls, saved>>

LineLock2(t) ==
    /\ pc[t] = "line_lock2"
    /\ LockRead(t, "line_read2")

\* let end = MATRIX_STACK.read().last().unwrap().transform_point(end);
LineRead2(t) ==
    /\ pc[t] = "line_read2"
    /\ IF stack = <<>>
       THEN Panic(t) /\ UNCHANGED end
       ELSE /\ end' = [end EXCEPT ![t] =
                    TransformPoint(Last(stack), <<cur[t].args[3], cur[t].args[4]>>)]
            /\ Unlock(t)
            /\ pc' = [pc EXCEPT ![t] = "line_call"]
            /\ UNCHANGED ret
    /\ UNCHANGED <<stack, active, auxVars, cur, top, start, center, canvas, answer, ncalls, pre,
                   saved>>

\* self.line(start.x as i16, start.y as i16, end.x as i16, end.y as i16, color)
\*     .map_err(SdlError::Draw)
\* the adapter accepts the call or rejects it
LineCall(t) ==
    /\ pc[t] = "line_call"
    /\ canvas' = [canvas EXCEPT ![t] = Append(@, [kind |-> "line",
            at |-> <<AsI16(start[t][1]), AsI16(start[t][2]),
                     AsI16(end[t][1]), AsI16(end[t][2])>>])]
    /\ \E a \in {"accepted", "rejected"} :
        /\ answer' = [answer EXCEPT ![t] = a]
        /\ Return(t, MapErr(a))
    /\ start' = [start EXCEPT ![t] = NoPoint]
    /\ end' = [end EXCEPT ![t] = NoPoint]
    /\ UNCHANGED <<stack, held, active, auxVars, cur, top, center, ncalls, pre, saved>>

\* ----------------------------------------------------- ext_fill_circle
CircleLock(t) ==
    /\ pc[t] = "circle_lock"
    /\ LockRead(t, "circle_read")

\* the top taken off the stack instead of borrowed: pop().unwrap()
CircleReadPops(t) ==
    /\ pc[t] = "circle_read"
    /\ pre' = [pre EXCEPT ![t] = stack]
    /\ IF stack = <<>>
       THEN Panic(t) /\ UNCHANGED <<center, stack>>
       ELSE /\ center' = [center EXCEPT ![t] =
                    TransformPoint(Last(stack), <<cur[t].args[1], cur[t].args[2]>>)]
            /\ stack' = VecPop(stack)
            /\ Unlock(t)
            /\ pc' = [pc EXCEPT ![t] = "circle_call"]
            /\ UNCHANGED ret
    /\ UNCHANGED <<active, auxVars, cur, top, start, end, canvas, answer, ncalls, saved>>

\* let center = MATRIX_STACK.read().last().unwrap().transform_point(center);
CircleRead(t) ==
    /\ pc[t] = "circle_read"
    /\ pre' = [pre EXCEPT ![t] = stack]
    /\ IF stack = <<>>
       THEN Panic(t) /\ UNCHANGED center
       ELSE /\ center' = [center EXCEPT ![t] =
                    TransformPoint(Last(stack), <<cur[t].args[1], cur[t].args[2]>>)]
            /\ Unlock(t)
            /\ pc' = [pc EXCEPT ![t] = "circle_call"]
            /\ UNCHANGED ret
    /\ UNCHANGED <<stack, active, auxVars, cur, top, start, end, canvas, answer, ncalls, saved>>

\* center.x passed where the radius belongs
CircleCallRadiusMixed(t) ==
    /\ pc[t] = "circle_call"
    /\ canvas' = [canvas EXCEPT ![t] = Append(@, [kind |-> "filled_circle",
            at |-> <<AsI16(center[t][1]), AsI16(center[t][2]),
                     AsI16(center[t][1])>>])]
    /\ \E a \in {"accepted", "rejected"} :
        /\ answer' = [answer EXCEPT ![t] = a]
        /\ Return(t, MapErr(a))
    /\ center' = [center EXCEPT ![t] = NoPoint]
    /\ UNCHANGED <<stack, held, active, auxVars, cur, top, start, end, ncalls, pre, saved>>

\* self.filled_circle(center.x as i16, center.y as i16, radius as i16, color)
\*     .map_err(SdlError::Draw)
CircleCall(t) ==
    /\ pc[t] = "circle_call"
    /\ canvas' = [canvas EXCEPT ![t] = Append(@, [kind |-> "filled_circle",
            at |-> <<AsI16(center[t][1]), AsI16(center[t][2]),
                     AsI16(cur[t].args[3])>>])]
    /\ \E a \in {"accepted", "rejected"} :
        /\ answer' = [answer EXCEPT ![t] = a]
        /\ Return(t, MapErr(a))
    /\ center' = [center EXCEPT ![t] = NoPoint]
    /\ UNCHANGED <<stack, held, active, auxVars, cur, top, start, end, ncalls, pre, saved>>

\* ------------------------------------------------------- specifications
Next ==
    \E t \in Threads :
        \/ Call(t)
        \/ Background(t)
        \/ ResetLock1(t)
        \/ ResetClear(t)
        \/ ResetLock2(t)
        \/ ResetPush(t)
        \/ TranslateLock(t)
        \/ TranslateMul(t)
        \/ RotateLock(t)
        \/ RotateMul(t)
        \/ PushLock1(t)
        \/ PushRead(t)
        \/ PushLock2(t)
        \/ PushPush(t)
        \/ PopLock(t)
        \/ PopPop(t)
        \/ LineLock1(t)
        \/ LineRead1(t)
        \/ LineLock2(t)
        \/ LineRead2(t)
        \/ LineCall(t)
        \/ CircleLock(t)
        \/ CircleRead(t)
        \/ CircleCall(t)

\* any number of callers
Spec == Init /\ [][Next]_vars

\* a single caller
SpecSeq == InitSeq /\ [][Next]_vars

\* ----------------------------------------------------- shared predicates
\* t has returned normally from a call of `op`
Returned(t, op) == pc[t] = "idle" /\ cur[t].op = op /\ ret[t] \in {"unit", "ok", "err"}

\* no call is in progress
Quiescent == \A t \in active : pc[t] \in {"idle", "panicked"}

\* a matrix whose linear part is the identity: a pure translation
IsTranslation(m) ==
    /\ m[1][1] = 1 /\ m[1][2] = 0
    /\ m[2][1] = 0 /\ m[2][2] = 1
    /\ m[3] = <<0, 0, 1>>

\* a point turned counter-clockwise by k quarter turns about the origin
RotatePoint(k, p) ==
    CASE k % 4 = 0 -> p
      [] k % 4 = 1 -> <<-p[2], p[1]>>
      [] k % 4 = 2 -> <<-p[1], -p[2]>>
      [] OTHER -> <<p[2], -p[1]>>

LineCallOf(x1, y1, x2, y2) == [kind |-> "line", at |-> <<x1, y1, x2, y2>>]

InI16(x) == I16Min <= x /\ x <= I16Max

\* ------------------------------------------------------------------- C1
\* C1: whenever no call is in progress, the transform stack holds at least
\* one element (single caller, any sequence of calls).
C1_NonEmpty == Quiescent => Len(stack) >= 1

\* ------------------------------------------------------------------- C2
\* C2: no call of a single caller ever aborts: the unwrap of the top never
\* fails, whatever pop_matrix calls came before.
C2_NoAbort == \A t \in Threads : pc[t] # "panicked"

\* ------------------------------------------------------------------- C3
\* C3: when push_matrix returns to a single caller that called it on a stack
\* of depth n >= 1, the stack has depth n + 1, its new top equals the previous
\* top and its first n entries are the previous stack.
C3_PushDuplicatesTop ==
    \A t \in Threads :
        (Returned(t, "push_matrix") /\ Len(pre[t]) >= 1) =>
            /\ Len(stack) = Len(pre[t]) + 1
            /\ Last(stack) = Last(pre[t])
            /\ SubSeq(stack, 1, Len(pre[t])) = pre[t]

\* push_matrix has returned on a stack of depth >= 2 whose top was not the identity
C3_Witness ==
    \E t \in Threads :
        /\ Returned(t, "push_matrix")
        /\ Len(pre[t]) >= 2
        /\ Last(pre[t]) # Identity
        /\ Last(pre[t]) # pre[t][1]
        /\ Len(stack) = Len(pre[t]) + 1

\* ------------------------------------------------------------------- C4
\* C4: for a single caller, the pop_matrix that matches a push_matrix leaves
\* the whole stack equal to the stack that push_matrix found, whatever
\* translate/rotate calls and balanced push/pop pairs ran in between.
C4_PushPopSymmetry ==
    [][\A t \in Threads :
        (pc[t] = "pop_pop" /\ pc'[t] = "idle" /\ saved # <<>>) =>
            stack' = Last(saved)]_vars

\* a matching pop_matrix has returned after the pushed top had been changed
C4_Witness ==
    \E t \in Threads :
        /\ Returned(t, "pop_matrix")
        /\ Len(pre[t]) >= 2
        /\ Last(pre[t]) # pre[t][Len(pre[t]) - 1]
        /\ Len(saved) < Len(pre[t]) - 1
        /\ stack = SubSeq(pre[t], 1, Len(pre[t]) - 1)

\* ------------------------------------------------------------------- C5
\* C5: when reset_matrix returns to a single caller, the stack is exactly
\* one identity matrix, whatever the stack was before (any depth, emptied
\* included); a second reset_matrix therefore changes nothing.
C5_ResetToIdentity ==
    \A t \in Threads : Returned(t, "reset_matrix") => stack = <<Identity>>

\* reset_matrix has returned after finding the stack emptied
C5_Witness ==
    \E t \in Threads :
        Returned(t, "reset_matrix") /\ pre[t] = <<>> /\ stack = <<Identity>>

\* ------------------------------------------------------------------- C6
\* C6: translate and rotate act in the current local frame: after
\* translate(dx, dy) the new top maps p to where the old top mapped
\* p + (dx, dy); after rotate the new top maps p to where the old top mapped
\* the rotated p; in particular translate(10, 0) from the identity followed
\* by a quarter turn maps (1, 0) to (10, 1).
C6_CompositionOrder ==
    \A t \in Threads :
        /\ Returned(t, "translate") =>
            \A p \in Points :
                TransformPoint(Last(stack), p) =
                    TransformPoint(Last(pre[t]),
                        <<p[1] + cur[t].args[1], p[2] + cur[t].args[2]>>)
        /\ Returned(t, "rotate") =>
            \A p \in Points :
                TransformPoint(Last(stack), p) =
                    TransformPoint(Last(pre[t]), RotatePoint(cur[t].args[1], p))
        /\ (Returned(t, "rotate") /\ cur[t].args = <<1>>
                /\ pre[t] = <<Translation(10, 0)>>) =>
            TransformPoint(Last(stack), <<1, 0>>) = <<10, 1>>

\* rotate by a quarter turn has returned on the stack translate(10, 0) made
\* from the identity
C6_Witness ==
    \E t \in Threads :
        /\ Returned(t, "rotate")
        /\ cur[t].args = <<1>>
        /\ pre[t] = <<Translation(10, 0)>>
        /\ Len(stack) = 1
        /\ TransformPoint(Last(stack), <<1, 0>>) = <<10, 1>>

RunAlone(c, s) ==
    CASE c.op = "reset_matrix" ->
            [stack |-> VecPush(VecClear(s), Identity), panic |-> FALSE]
      [] c.op = "translate" ->
            IF s = <<>> THEN [stack |-> s, panic |-> TRUE]
            ELSE [stack |-> MulTop(s, Translation(c.args[1], c.args[2])), panic |-> FALSE]
      [] c.op = "rotate" ->
            IF s = <<>> THEN [stack |-> s, panic |-> TRUE]
            ELSE [stack |-> MulTop(s, Rotation(c.args[1])), panic |-> FALSE]
      [] c.op = "push_matrix" ->
            IF s = <<>> THEN [stack |-> s, panic |-> TRUE]
            ELSE [stack |-> VecPush(s, CloneLast(s)), panic |-> FALSE]
      [] c.op = "pop_matrix" ->
            [stack |-> VecPop(s), panic |-> FALSE]
      [] OTHER -> [stack |-> s, panic |-> s = <<>>]

\* the outcomes <<stack, aborted callers>> of running the calls of the callers
\* S one at a time, in every order, from stack s
RECURSIVE Outcomes(_, _, _)
Outcomes(S, s, dead) ==
    IF S = {} THEN {<<s, dead>>}
    ELSE UNION {LET r == RunAlone(cur[t], s)
                IN  Outcomes(S \ {t}, r.stack, IF r.panic THEN dead \cup {t} ELSE dead)
                : t \in S}

\* C8: when concurrent callers have each issued one mutation from the initial
\* stack and all are done, the stack (and who aborted) equals the outcome of
\* running those calls one at a time in some order.
C8_Linearizable ==
    (/\ Quiescent
     /\ \A t \in active : ncalls[t] <= 1
     /\ \A t \in active : ncalls[t] = 1 => cur[t].op \in MutationOps) =>
        <<stack, {t \in active : pc[t] = "panicked"}>>
            \in Outcomes({t \in active : ncalls[t] = 1}, <<Identity>>, {})

\* ------------------------------------------------------------------- C9
\* statements that run under a write guard, and under a read guard
WriteBodies == {"reset_clear", "reset_push", "translate_mul", "rotate_mul",
                "push_push", "pop_pop"}
ReadBodies == {"push_read", "line_read1", "line_read2", "circle_read"}

\* C9: a caller holding the write guard excludes every other guard, every
\* mutating statement runs under the write guard and every read of the top
\* under a read guard.
C9_LockDiscipline ==
    /\ \A t \in Threads : \A u \in Threads \ {t} :
        held[t] = "write" => held[u] = "none"
    /\ \A t \in Threads : pc[t] \in WriteBodies <=> held[t] = "write"
    /\ \A t \in Threads : pc[t] \in ReadBodies <=> held[t] = "read"

\* two callers hold read guards at the same time
C9_Witness ==
    \E t \in Threads : \E u \in Threads \ {t} :
        /\ held[t] = "read"
        /\ held[u] = "read"
        /\ pc[t] \in ReadBodies
        /\ pc[u] \in ReadBodies

\* ------------------------------------------------------------------ C10
\* C10: a caller that holds the read guard to read the top while another
\* caller's reset_matrix, begun on a non-empty stack, is under way never finds
\* the stack empty (on an empty stack its unwrap aborts).
C10_ReadDuringReset ==
    \A t \in Threads : \A u \in Threads \ {t} :
        (cur[u].op = "reset_matrix" /\ pc[u] = "reset_lock2" /\ pre[u] # <<>>) =>
            (pc[t] \in ReadBodies => stack # <<>>)

\* ------------------------------------------------------------------ C11
DrawOps == {"ext_draw_line", "ext_fill_circle"}

\* C11: when the adapter rejects the line or filled-circle call of a single
\* caller, the method returns an error value, the adapter has been invoked
\* exactly once by that call, and the stack is what the call found.
C11_DrawFailurePropagated ==
    \A t \in Threads :
        (pc[t] = "idle" /\ cur[t].op \in DrawOps /\ answer[t] = "rejected") =>
            /\ ret[t] = "err"
            /\ Len(canvas[t]) = 1
            /\ stack = pre[t]

\* a rejected line call has returned on a stack of depth >= 2
C11_Witness ==
    \E t \in Threads :
        /\ pc[t] = "idle"
        /\ cur[t].op = "ext_draw_line"
        /\ answer[t] = "rejected"
        /\ ret[t] = "err"
        /\ Len(pre[t]) >= 2
        /\ Last(pre[t]) # Identity

\* ------------------------------------------------------------------ C12
\* the statements that wait for MATRIX_STACK
LockStatements == {"reset_lock1", "reset_lock2", "translate_lock", "rotate_lock",
                   "push_lock1", "push_lock2", "pop_lock", "line_lock1",
                   "line_lock2", "circle_lock"}

\* C12: a call that found the stack non-empty is never cut short by an abort,
\* and a caller waiting for the lock holds no guard of its own (so that every
\* started call can go on to return).
C12_EveryCallCompletes ==
    \A t \in active :
        /\ ~(pc[t] = "panicked" /\ pre[t] # <<>>)
        /\ pc[t] \in LockStatements => held[t] = "none"

\* ------------------------------------------------------------------ C13
ReadOnlyStatements == {"bg_clear", "line_lock1", "line_read1", "line_lock2",
                       "line_read2", "line_call", "circle_lock", "circle_read",
                       "circle_call"}

\* C13: no step of background, ext_draw_line or ext_fill_circle changes the
\* stack, and two callers whose reads found the same stack hold the same
\* transformed point for the same argument.
C13_ReadOnlyFrame ==
    /\ [][\A t \in Threads :
            (pc[t] \in ReadOnlyStatements /\ pc'[t] # pc[t]) => stack' = stack]_vars
    /\ [](\A t \in Threads : \A u \in Threads \ {t} :
            (pre[t] = pre[u] /\ cur[t] = cur[u]) =>
                /\ (pc[t] = "circle_call" /\ pc[u] = "circle_call") =>
                        center[t] = center[u]
                /\ (pc[t] \in {"line_lock2", "line_read2", "line_call"}
                        /\ pc[u] \in {"line_lock2", "line_read2", "line_call"}) =>
                        start[t] = start[u])

\* two callers have read the same translated top for their circles
C13_Witness ==
    \E t \in Threads : \E u \in Threads \ {t} :
        /\ pc[t] = "circle_call"
        /\ pc[u] = "circle_call"
        /\ pre[t] = pre[u]
        /\ pre[t] = stack
        /\ stack # <<Identity>>
        /\ center[t] = center[u]
        /\ center[t] # <<cur[t].args[1], cur[t].args[2]>>

\* ------------------------------------------------------------------ C14
\* C14: whenever push_matrix appends its element, the stack is not empty and
\* the appended element equals the top at that moment, whatever other callers
\* do meanwhile.
C14_AtomicPush ==
    [][\A t \in Threads :
        (pc[t] = "push_push" /\ pc'[t] = "idle") =>
            /\ stack # <<>>
            /\ Last(stack') = Last(stack)]_vars

\* ------------------------------------------------------------------ C15
\* C15: when ext_draw_line calls the adapter, its start and its end have been
\* transformed by one and the same top-of-stack matrix, the one its first read
\* found, whatever other callers do meanwhile.
C15_SingleSnapshot ==
    \A t \in Threads :
        pc[t] = "line_call" =>
            /\ start[t] = TransformPoint(Last(pre[t]), <<cur[t].args[1], cur[t].args[2]>>)
            /\ end[t] = TransformPoint(Last(pre[t]), <<cur[t].args[3], cur[t].args[4]>>)

\* ------------------------------------------------------------------ C16
\* C16: for a single caller, translate and rotate on depth n >= 1 leave the
\* depth at n and the n - 1 entries below the top unchanged; pop_matrix on
\* depth n >= 2 leaves exactly the first n - 1 entries; push_matrix leaves the
\* first n entries unchanged.
C16_OnlyTopChanges ==
    \A t \in Threads :
        LET n == Len(pre[t]) IN
        /\ ((Returned(t, "translate") \/ Returned(t, "rotate")) /\ n >= 1) =>
            /\ Len(stack) = n
            /\ SubSeq(stack, 1, n - 1) = SubSeq(pre[t], 1, n - 1)
        /\ (Returned(t, "pop_matrix") /\ n >= 2) =>
            stack = SubSeq(pre[t], 1, n - 1)
        /\ (Returned(t, "push_matrix") /\ n >= 1) =>
            SubSeq(stack, 1, n) = pre[t]

\* translate or rotate has returned having changed the top of a stack whose
\* lower entries are not all the identity
C16_Witness ==
    \E t \in Threads :
        /\ Returned(t, "translate") \/ Returned(t, "rotate")
        /\ Len(pre[t]) >= 2
        /\ pre[t][1] # Identity
        /\ Last(stack) # Last(pre[t])
        /\ SubSeq(stack, 1, Len(stack) - 1) = SubSeq(pre[t], 1, Len(pre[t]) - 1)

\* ------------------------------------------------------------------ C17
\* C17: every matrix stored in the stack has bottom row [0, 0, 1], after any
\* sequence of calls of a single caller.
C17_AffineBottomRow ==
    \A i \in 1..Len(stack) : stack[i][3] = <<0, 0, 1>>

\* the stack holds a matrix that is both rotated and translated
C17_Witness ==
    \E i \in 1..Len(stack) :
        /\ Len(stack) >= 2
        /\ stack[i][1][1] # 1
        /\ stack[i][1][3] # 0
        /\ stack[i][3] = <<0, 0, 1>>

\* ------------------------------------------------------------------ C18
FilledCircleOf(x, y, r) == [kind |-> "filled_circle", at |-> <<x, y, r>>]

Intervals == {0, 2, 3}

\* (now - self.last_tick).num_nanoseconds().unwrap() as f64 * 1e-9
ElapsedTime(now, last) == now - last

\* last_tick moved on by every call
NextLastTickAlways(now, last, iv) == now

\* `if elapsed_time >= self.interval { self.last_tick = now; ... }`
NextLastTick(now, last, iv) == IF ElapsedTime(now, last) >= iv THEN now ELSE last

\* Timer::new(interval) at time 0
InitTimer ==
    /\ InitFor({1})
    /\ MapUnused
    /\ interval \in Intervals
    /\ clock = 0
    /\ last_tick = clock
    /\ ticked = "none"
    /\ nticks = 0
    /\ since = clock
    /\ everTrue = FALSE

\* time passes; the clock never goes back
ClockAdvance ==
    /\ clock < MaxTime
    /\ clock' = clock + 1
    /\ UNCHANGED <<last_tick, interval, ticked, nticks, since, everTrue>>
    /\ UNCHANGED <<canvasVars, mapVars>>

\* Timer::tick
Tick ==
    /\ nticks < MaxTicks
    /\ nticks' = nticks + 1
    /\ ticked' = IF ElapsedTime(clock, last_tick) >= interval THEN "true" ELSE "false"
    /\ last_tick' = NextLastTick(clock, last_tick, interval)
    /\ since' = IF ticked' = "true" THEN clock ELSE since
    /\ everTrue' = (everTrue \/ ticked' = "true")
    /\ UNCHANGED <<interval, clock>>
    /\ UNCHANGED <<canvasVars, mapVars>>

NextTimer == ClockAdvance \/ Tick

\* one Timer and its clock
SpecTimer == InitTimer /\ [][NextTimer]_vars

\* ------------------------------------------------------------------ C19
\* C19: with a clock that never goes back, tick returns true exactly when at
\* least `interval` has passed since the previous true return (or since the
\* Timer was made), a false return leaves last_tick unchanged, and a true
\* return comes at least `interval` after the true return before it.
C19_TimerPacing ==
    [][nticks' = nticks + 1 =>
        /\ (ticked' = "true") <=> (clock - since >= interval)
        /\ (ticked' = "false") => last_tick' = last_tick
        /\ (ticked' = "true" /\ everTrue) => clock' - since >= interval]_vars

\* tick has returned false after an earlier true return, with time gone by
C19_Witness ==
    /\ ticked = "false"
    /\ everTrue
    /\ nticks >= 3
    /\ interval >= 2
    /\ clock > since
    /\ since > 0

\* ------------------------------------------------------------------ map
\* f64 division, on arguments where it is exact
Quotient(a, b) == IF b > 0 THEN a \div b ELSE -((a) \div (-b))

\* value * (new_max - new_min) / (orig_max - orig_min) + new_min
Map(value, orig_min, orig_max, new_min, new_max) ==
    Quotient(value * (new_max - new_min), orig_max - orig_min) + new_min

MapRange == (-MaxMapArg)..MaxMapArg

\* the arguments: orig_min # orig_max, and the division is exact
MapInputs ==
    {a \in MapRange \X MapRange \X MapRange \X MapRange \X MapRange :
        /\ a[2] # a[3]
        /\ LET d == a[3] - a[2]
               n == a[1] * (a[5] - a[4])
           IN  IF d > 0 THEN n % d = 0 ELSE n % (-d) = 0}

InitMap ==
    /\ InitFor({1})
    /\ TimerUnused
    /\ mapArgs \in MapInputs
    /\ mapOut = <<>>

\* the call of map
ApplyMap ==
    /\ mapOut = <<>>
    /\ mapOut' = <<Map(mapArgs[1], mapArgs[2], mapArgs[3], mapArgs[4], mapArgs[5])>>
    /\ UNCHANGED <<mapArgs, canvasVars, timerVars>>

\* one call of map
NextMap == ApplyMap

SpecMap == InitMap /\ [][NextMap]_vars

\* ------------------------------------------------------------------ C20
\* C20: with orig_min # orig_max, map sends orig_min to new_min and orig_max
\* to new_max.
C20_MapEnds ==
    mapOut # <<>> =>
        /\ mapArgs[1] = mapArgs[2] => mapOut[1] = mapArgs[4]
        /\ mapArgs[1] = mapArgs[3] => mapOut[1] = mapArgs[5]

=============================================================================
